---- MODULE Spec2Model ----
(***************************************************************************)
(* A model of DebToIPA's convert (src/main.go): the ar member dispatch,    *)
(* the memory-bounded tar extraction with disk spillover, app-root         *)
(* detection, Info.plist capture and parsing, and the zip packager with    *)
(* its permission / external-attribute computation.                        *)
(*                                                                         *)
(* Strings of the program are sequences of one-character strings, so that  *)
(* strings.Index, HasPrefix, HasSuffix, TrimPrefix, path.Base and          *)
(* path.Join are computed the way the Go library computes them.            *)
(***************************************************************************)
EXTENDS Integers, Sequences, FiniteSets, TLC

(***************************************************************************)
(* Bounds of the model.                                                    *)
(***************************************************************************)
\* ar members read before the model stops drawing new ones
MaxMembers == 2
\* tar entries read before the model stops drawing new ones
MaxEntries == 3
\* MaxMemoryUsage of main.go:25 is 2 GiB; entry sizes and the ceiling are
\* scaled down together so that sums fall on both sides of it
MaxMemoryUsage == 3
\* largest tar header mode drawn for the permission computation (0777)
MaxMode == 511
\* longest <key> list and <string> list of a parsed Info.plist
MaxKeys == 3
MaxStrings == 2

(***************************************************************************)
(* Go strings.                                                             *)
(***************************************************************************)
\* s[from..to], 1-based and inclusive; Go's s[from-1:to]
Slice(s, from, to) == SubSeq(s, from, to)

HasPrefix(s, prefix) ==
    /\ Len(s) >= Len(prefix)
    /\ Slice(s, 1, Len(prefix)) = prefix

HasSuffix(s, suffix) ==
    /\ Len(s) >= Len(suffix)
    /\ Slice(s, Len(s) - Len(suffix) + 1, Len(s)) = suffix

\* strings.Index: the 0-based offset of the first occurrence, or -1
Index(s, substr) ==
    LET hits == { i \in 0..(Len(s) - Len(substr)) :
                      Slice(s, i + 1, i + Len(substr)) = substr }
    IN  IF hits = {} THEN -1
        ELSE CHOOSE i \in hits : \A j \in hits : i <= j

Contains(s, substr) == Index(s, substr) >= 0

TrimPrefix(s, prefix) ==
    IF HasPrefix(s, prefix) THEN Slice(s, Len(prefix) + 1, Len(s)) ELSE s

TrimSuffix(s, suffix) ==
    IF HasSuffix(s, suffix) THEN Slice(s, 1, Len(s) - Len(suffix)) ELSE s

\* os.PathSeparator of the build (a Unix build)
Separator == "/"

\* filepath.ToSlash: every Separator replaced by a slash
ToSlash(s) ==
    IF Separator = "/" THEN s
    ELSE [i \in DOMAIN s |-> IF s[i] = Separator THEN "/" ELSE s[i]]

(***************************************************************************)
(* Go package path: Clean, Join, Base.                                     *)
(***************************************************************************)
RECURSIVE SplitSlash(_)
\* the segments of s between slashes (empty segments kept)
SplitSlash(s) ==
    LET i == Index(s, <<"/">>)
    IN  IF i = -1 THEN <<s>>
        ELSE <<Slice(s, 1, i)>> \o SplitSlash(Slice(s, i + 2, Len(s)))

RECURSIVE JoinSlash(_)
JoinSlash(segs) ==
    IF segs = <<>> THEN <<>>
    ELSE IF Len(segs) = 1 THEN segs[1]
    ELSE segs[1] \o <<"/">> \o JoinSlash(Tail(segs))

RECURSIVE CleanSegs(_, _, _)
\* path.Clean's pass over the segments: out is the cleaned path so far
CleanSegs(segs, out, rooted) ==
    IF segs = <<>> THEN out
    ELSE LET seg  == Head(segs)
             rest == Tail(segs)
         IN  IF seg = <<>> \/ seg = <<".">>
             THEN CleanSegs(rest, out, rooted)
             ELSE IF seg = <<".", ".">>
             THEN IF out # <<>> /\ out[Len(out)] # <<".", ".">>
                  THEN CleanSegs(rest, Slice(out, 1, Len(out) - 1), rooted)
                  ELSE IF rooted
                  THEN CleanSegs(rest, out, rooted)
                  ELSE CleanSegs(rest, Append(out, seg), rooted)
             ELSE CleanSegs(rest, Append(out, seg), rooted)

\* path.Clean
Clean(p) ==
    IF p = <<>> THEN <<".">>
    ELSE LET rooted == p[1] = "/"
             out    == JoinSlash(CleanSegs(SplitSlash(p), <<>>, rooted))
         IN  IF rooted THEN <<"/">> \o out
             ELSE IF out = <<>> THEN <<".">>
             ELSE out

\* path.Join: the non-empty elements joined by slashes, then cleaned
PathJoin(elems) ==
    LET nonEmpty == SelectSeq(elems, LAMBDA e : e # <<>>)
    IN  IF nonEmpty = <<>> THEN <<>> ELSE Clean(JoinSlash(nonEmpty))

RECURSIVE StripTrailingSlashes(_)
StripTrailingSlashes(p) ==
    IF p # <<>> /\ p[Len(p)] = "/"
    THEN StripTrailingSlashes(Slice(p, 1, Len(p) - 1))
    ELSE p

\* path.Base
Base(p) ==
    IF p = <<>> THEN <<".">>
    ELSE LET q    == StripTrailingSlashes(p)
             segs == SplitSlash(q)
         IN  IF q = <<>> THEN <<"/">> ELSE segs[Len(segs)]

(***************************************************************************)
(* String literals of main.go and of the inputs.                           *)
(***************************************************************************)
DotApp      == <<".", "a", "p", "p">>
DotAppSlash == <<".", "a", "p", "p", "/">>
InfoPlist   == <<"I", "n", "f", "o", ".", "p", "l", "i", "s", "t">>
DotDylib    == <<".", "d", "y", "l", "i", "b">>
SlashBin    == <<"/", "b", "i", "n", "/">>
Payload     == <<"P", "a", "y", "l", "o", "a", "d">>
Unknown     == <<"U", "n", "k", "n", "o", "w", "n">>
DataTar     == <<"d", "a", "t", "a", ".", "t", "a", "r">>
DotGz       == <<".", "g", "z">>
DotXz       == <<".", "x", "z">>
DotLzma     == <<".", "l", "z", "m", "a">>
DotBzip2    == <<".", "b", "z", "i", "p", "2">>
DotZst      == <<".", "z", "s", "t">>
DebianBinary == <<"d", "e", "b", "i", "a", "n", "-", "b", "i", "n", "a", "r", "y">>

(***************************************************************************)
(* Unsigned 32-bit arithmetic of zip.FileHeader.ExternalAttrs. A uint32 is *)
(* kept as its two 16-bit halves, [hi, lo], its value being                *)
(* hi * 65536 + lo.                                                        *)
(***************************************************************************)
RECURSIVE BitAnd(_, _)
BitAnd(a, b) ==
    IF a = 0 \/ b = 0 THEN 0
    ELSE (a % 2) * (b % 2) + 2 * BitAnd(a \div 2, b \div 2)

RECURSIVE BitOr(_, _)
BitOr(a, b) ==
    IF a = 0 THEN b
    ELSE IF b = 0 THEN a
    ELSE (IF a % 2 = 1 \/ b % 2 = 1 THEN 1 ELSE 0) + 2 * BitOr(a \div 2, b \div 2)

Half == 65536

\* x << 16 on a uint32 x: the low half moves up, the high half is lost
Shl16(x) == [hi |-> x % Half, lo |-> 0]

(***************************************************************************)
(* Compression Dispatcher (main.go:100-122).                               *)
(***************************************************************************)
\* a plausible slip: an unknown suffix falls back to gzip
DispatchFallback(name) ==
    IF HasSuffix(name, DotLzma) THEN "lzma"
    ELSE IF HasSuffix(name, DotBzip2) THEN "bzip2"
    ELSE IF HasSuffix(name, DotXz) THEN "xz"
    ELSE "gzip"

\* the switch over the member name's suffix, in the order of the cases
Dispatch(name) ==
    IF HasSuffix(name, DotGz) THEN "gzip"
    ELSE IF HasSuffix(name, DotLzma) THEN "lzma"
    ELSE IF HasSuffix(name, DotBzip2) THEN "bzip2"
    ELSE IF HasSuffix(name, DotXz) THEN "xz"
    ELSE "unsupported"

(***************************************************************************)
(* Tar entries.                                                            *)
(***************************************************************************)
TypeReg     == "0"
TypeSymlink == "2"
TypeChar    == "3"
TypeDir     == "5"

\* a tar header and the body the reader yields for it
Header(name, typeflag, mode, size, doc, linkname) ==
    [Name |-> name, Typeflag |-> typeflag, Mode |-> mode, Size |-> size,
     ModTime |-> 1, Linkname |-> linkname, doc |-> doc]

(***************************************************************************)
(* Metadata Parser (main.go:239-270).                                      *)
(***************************************************************************)
CFBundleExecutable == "CFBundleExecutable"
CFBundleIdentifier == "CFBundleIdentifier"
CFBundleVersion == "CFBundleVersion"
CFBundleShortVersionString == "CFBundleShortVersionString"
CFBundleName == "CFBundleName"

PlistKeys == {CFBundleExecutable, CFBundleIdentifier, CFBundleVersion,
              CFBundleShortVersionString, CFBundleName}
PlistStrings == {<<>>, <<"F">>, <<"c", "o", "m">>}

\* the outcome of xml.Unmarshal into a Plist: an error, or the two lists
BadXml == [err |-> TRUE, Keys |-> <<>>, String |-> <<>>]
Plist(keys, strings) == [err |-> FALSE, Keys |-> keys, String |-> strings]

\* a []byte: nil, or len bytes; doc is what xml.Unmarshal makes of the bytes
NilBytes == [nil |-> TRUE, len |-> 0, doc |-> BadXml]
Bytes(n, d) == [nil |-> FALSE, len |-> n, doc |-> d]

RECURSIVE ScanKeys(_, _, _)
\* the loop of main.go:247-261 from index i on; acc holds the three fields
ScanKeys(plist, i, acc) ==
    IF i > Len(plist.Keys) \/ i > Len(plist.String) THEN acc
    ELSE LET key == plist.Keys[i]
             val == plist.String[i]
             a1  == IF key = CFBundleExecutable
                    THEN [acc EXCEPT !.executableName = val] ELSE acc
             a2  == IF key = CFBundleIdentifier
                    THEN [a1 EXCEPT !.bundleID = val] ELSE a1
             a3  == IF key = CFBundleVersion \/ key = CFBundleShortVersionString
                    THEN [a2 EXCEPT !.version = val] ELSE a2
         IN  ScanKeys(plist, i + 1, a3)

\* a plausible slip: the fallback executable name keeps the .app suffix
FallbackNameKeepSuffix(appNameFolder) == appNameFolder

\* main.go:269
FallbackName(appNameFolder) == TrimSuffix(appNameFolder, DotApp)

\* main.go:239-270: have is len(infoPlistData) > 0, plist the Unmarshal outcome
ParseInfo(have, plist, appNameFolder) ==
    LET defaults == [executableName |-> <<>>, bundleID |-> Unknown,
                     version |-> Unknown]
        parsed   == IF have /\ ~plist.err THEN ScanKeys(plist, 1, defaults)
                    ELSE defaults
    IN  IF parsed.executableName = <<>>
        THEN [parsed EXCEPT !.executableName = FallbackName(appNameFolder)]
        ELSE parsed

(***************************************************************************)
(* Permission algebra of the Archive Packager (main.go:309-366).           *)
(***************************************************************************)
Store   == 0
Deflate == 8

\* a plausible slip: the type bits are left out of the external attributes
ExternalAttrsPermsOnly(unixFileType, perms) == Shl16(perms)

\* main.go:366
ExternalAttrs(unixFileType, perms) == Shl16(BitOr(unixFileType, perms))

\* main.go:309-366 for one stored file: the zip header's method and attributes
ZipHeader(vf, finalPath, executableName) ==
    LET perms == BitAnd(vf.Mode, 511)
    IN  IF vf.IsLink
        THEN [Name |-> finalPath, Method |-> Store, Modified |-> vf.ModTime,
              ExternalAttrs |-> ExternalAttrs(40960, 511)]
        ELSE IF vf.IsDir
        THEN [Name |-> finalPath, Method |-> Store, Modified |-> vf.ModTime,
              ExternalAttrs |->
                  ExternalAttrs(16384, IF perms = 0 THEN 493 ELSE perms)]
        ELSE LET isMainBinary == Base(finalPath) = executableName
                 p == IF \/ isMainBinary
                         \/ HasSuffix(finalPath, DotDylib)
                         \/ Contains(finalPath, SlashBin)
                      THEN 493
                      ELSE IF perms = 0 THEN 420 ELSE perms
             IN  [Name |-> finalPath,
                  Method |-> IF isMainBinary THEN Store ELSE Deflate,
                  Modified |-> vf.ModTime,
                  ExternalAttrs |-> ExternalAttrs(32768, p)]

\* main.go:291-307: the output path of a stored file under the app root
FinalPath(vf, cleanAppPrefix, appNameFolder) ==
    LET cleanName == ToSlash(vf.Name)
        relPath   == TrimPrefix(cleanName, cleanAppPrefix)
        joined    == PathJoin(<<Payload, appNameFolder, relPath>>)
    IN  IF vf.IsDir THEN joined \o <<"/">> ELSE joined

(***************************************************************************)
(* Extraction & Classification Engine (main.go:143-228).                   *)
(***************************************************************************)
\* a plausible slip: every path holding .app/ moves the app root
DetectAppRootLastWins(appDirPrefix, name) ==
    LET idx == Index(name, DotAppSlash)
    IN  IF idx # -1 THEN Slice(name, 1, idx + 5) ELSE appDirPrefix

\* main.go:172-177
DetectAppRoot(appDirPrefix, name) ==
    IF appDirPrefix = <<>>
    THEN LET idx == Index(name, DotAppSlash)
         IN  IF idx # -1 THEN Slice(name, 1, idx + 5) ELSE appDirPrefix
    ELSE appDirPrefix

\* a plausible slip: <= in place of < in the RAM-ceiling check
FitsInRamInclusive(currentRamUsage, size) ==
    currentRamUsage + size <= MaxMemoryUsage

\* main.go:198
FitsInRam(currentRamUsage, size) == currentRamUsage + size < MaxMemoryUsage

\* a plausible slip: the descriptor is captured once, the first one wins
CaptureFirstOnly(infoPlistData, name, data) ==
    IF HasSuffix(name, InfoPlist) /\ data.len > 0 /\ infoPlistData.nil
    THEN data ELSE infoPlistData

\* main.go:219-221
CaptureInfoPlist(infoPlistData, name, data) ==
    IF HasSuffix(name, InfoPlist) /\ data.len > 0 THEN data ELSE infoPlistData

\* main.go:208: filepath.Join(tempDir, fmt.Sprintf("spill_%d", spillCount))
SpillPath(spillCount) == <<"ipa-spill", "spill_", spillCount>>

\* a plausible slip: directories are not kept in the store
AppendFileNoDirs(files, vFile) ==
    IF vFile.IsDir THEN files ELSE Append(files, vFile)

\* files = append(files, vFile) of main.go:191, 223, 226
AppendFile(files, vFile) == Append(files, vFile)

\* The state of the extraction loop before its first iteration (main.go:143-154)
EmptyEngine ==
    [files |-> <<>>, currentRamUsage |-> 0, totalSize |-> 0, fileCount |-> 0,
     spillCount |-> 0, appDirPrefix |-> <<>>, infoPlistData |-> NilBytes,
     spillFiles |-> {}, err |-> "", fault |-> ""]

\* One iteration of the loop of main.go:156-228 on header h. io is what the
\* environment does to the iteration's I/O: "ok"; "fail1", the read into RAM
\* or the creation of the spill file fails; "fail2", the copy into the spill
\* file fails. err is the error returned, fault a failure not returned.
\* seq is the entry's place in the tar stream (not a field of the program).
ClassifyEntry(e, h, io) ==
    LET prefix == DetectAppRoot(e.appDirPrefix, h.Name)
        count  == e.fileCount + 1
        vFile  == [Name |-> h.Name, Data |-> NilBytes, DiskPath |-> <<>>,
                   Mode |-> h.Mode, ModTime |-> h.ModTime,
                   IsDir |-> h.Typeflag = TypeDir, IsLink |-> FALSE,
                   LinkDest |-> <<>>, seq |-> count]
        e1     == [e EXCEPT !.fileCount = count, !.appDirPrefix = prefix]
    IN  IF h.Typeflag = TypeSymlink
        THEN [e1 EXCEPT !.files = AppendFile(e.files,
                 [vFile EXCEPT !.IsLink = TRUE, !.LinkDest = h.Linkname])]
        ELSE IF h.Typeflag = TypeReg
        THEN LET e2 == [e1 EXCEPT !.totalSize = e.totalSize + h.Size]
             IN  IF FitsInRam(e.currentRamUsage, h.Size)
                 THEN IF io = "fail1"
                      THEN [e2 EXCEPT !.err = "TarReadError"]
                      ELSE LET data == Bytes(h.Size, h.doc)
                           IN  [e2 EXCEPT
                                 !.currentRamUsage = e.currentRamUsage + data.len,
                                 !.infoPlistData =
                                     CaptureInfoPlist(e.infoPlistData, h.Name, data),
                                 !.files = AppendFile(e.files,
                                     [vFile EXCEPT !.Data = data])]
                 ELSE LET n        == e.spillCount + 1
                          tempPath == SpillPath(n)
                          e3       == [e2 EXCEPT !.spillCount = n]
                      IN  IF io = "fail1"
                          THEN [e3 EXCEPT !.err = "SpilloverIOError"]
                          ELSE [e3 EXCEPT
                                 !.spillFiles = e.spillFiles \cup {tempPath},
                                 !.fault = IF io = "fail2"
                                           THEN "SpilloverIOError" ELSE "",
                                 !.infoPlistData =
                                     CaptureInfoPlist(e.infoPlistData, h.Name, NilBytes),
                                 !.files = AppendFile(e.files,
                                     [vFile EXCEPT !.DiskPath = tempPath])]
        ELSE IF h.Typeflag = TypeDir
        THEN [e1 EXCEPT !.files = AppendFile(e.files, vFile)]
        ELSE e1

(***************************************************************************)
(* The inputs the model draws.                                             *)
(***************************************************************************)
\* names of ar members
DataTarGz    == DataTar \o DotGz
ArNames ==
    {DebianBinary, DataTar, DataTarGz, DataTar \o DotXz, DataTar \o DotLzma,
     DataTar \o DotBzip2, DataTar \o DotZst}

\* tar paths: F.app is the bundle, B.app a second bundle, u/ lies outside
AppF == <<"F">> \o DotAppSlash
AppB == <<"B">> \o DotAppSlash
Binary == BadXml
PlistA == Plist(<<CFBundleExecutable, CFBundleIdentifier>>, <<<<"F">>, <<"c", "o", "m">>>>)
PlistB == Plist(<<CFBundleName, CFBundleExecutable>>, <<<<"c", "o", "m">>, <<"x">>>>)
PlistC == Plist(<<CFBundleExecutable>>, <<<<"l">>>>)

\* entries whose sizes fall on both sides of the ceiling
HeadersFlow ==
    { Header(AppF \o <<"F">>, TypeReg, 420, n, Binary, <<>>) : n \in 0..3 }
    \cup { Header(<<"u", "/">>, TypeDir, 493, 0, Binary, <<>>),
           Header(AppF \o <<"l">>, TypeSymlink, 511, 0, Binary, <<"F">>) }

\* entries of every kind, inside and outside the bundle
HeadersTree ==
    { Header(<<"u", "/">>, TypeDir, 493, 0, Binary, <<>>),
      Header(AppF, TypeDir, 0, 0, Binary, <<>>),
      Header(AppF \o <<"S", "/">>, TypeDir, 448, 0, Binary, <<>>),
      Header(AppF \o <<"F">>, TypeReg, 420, 1, Binary, <<>>),
      Header(AppF \o InfoPlist, TypeReg, 420, 1, PlistA, <<>>),
      Header(AppF \o InfoPlist, TypeReg, 420, 3, PlistB, <<>>),
      Header(AppF \o InfoPlist, TypeReg, 420, 0, Binary, <<>>),
      Header(AppB \o InfoPlist, TypeReg, 420, 1, PlistC, <<>>),
      Header(AppF \o <<"l">>, TypeSymlink, 511, 0, Binary, <<"F">>),
      Header(AppF \o <<"G">> \o DotAppSlash \o <<"d">>, TypeChar, 420, 0, Binary, <<>>),
      Header(AppF \o <<".", ".", "/", "x">>, TypeReg, 420, 1, Binary, <<>>) }

(***************************************************************************)
(* The state of one run of convert.                                        *)
(***************************************************************************)
VARIABLES
    pc,               \* where convert is
    result,           \* "" while running, "ok" for a nil return, else the error
    failed,           \* the failures of the taxonomy that have happened
    arSeen,           \* the member names arReader.Next has returned
    foundData,
    dataTar,          \* the decoder opened over the member
    tempDir,          \* "none", "exists" or "removed"
    spillFiles,       \* the files in tempDir
    tarSeen,          \* the headers tarReader.Next has returned
    files, currentRamUsage, totalSize, fileCount, spillCount,
    appDirPrefix, infoPlistData,
    appNameFolder, executableName, bundleID, version,
    ipaFile,          \* whether os.Create(ipaPath) has been called
    zipEntries,       \* the entries written to the zip, in order
    next              \* the index into files of the packager's loop

vars == <<pc, result, failed, arSeen, foundData, dataTar, tempDir, spillFiles,
          tarSeen, files, currentRamUsage, totalSize, fileCount, spillCount,
          appDirPrefix, infoPlistData, appNameFolder, executableName, bundleID,
          version, ipaFile, zipEntries, next>>

arVars     == <<arSeen, foundData, dataTar>>
engineVars == <<files, currentRamUsage, totalSize, fileCount, spillCount,
                appDirPrefix, infoPlistData>>
infoVars   == <<appNameFolder, executableName, bundleID, version>>
zipVars    == <<ipaFile, zipEntries, next>>

Engine ==
    [files |-> files, currentRamUsage |-> currentRamUsage,
     totalSize |-> totalSize, fileCount |-> fileCount,
     spillCount |-> spillCount, appDirPrefix |-> appDirPrefix,
     infoPlistData |-> infoPlistData, spillFiles |-> spillFiles,
     err |-> "", fault |-> ""]

SetEngine(e) ==
    /\ files' = e.files
    /\ currentRamUsage' = e.currentRamUsage
    /\ totalSize' = e.totalSize
    /\ fileCount' = e.fileCount
    /\ spillCount' = e.spillCount
    /\ appDirPrefix' = e.appDirPrefix
    /\ infoPlistData' = e.infoPlistData

Init ==
    /\ pc = "open"
    /\ result = ""
    /\ failed = {}
    /\ arSeen = <<>>
    /\ foundData = FALSE
    /\ dataTar = "none"
    /\ tempDir = "none"
    /\ spillFiles = {}
    /\ tarSeen = <<>>
    /\ files = <<>>
    /\ currentRamUsage = 0
    /\ totalSize = 0
    /\ fileCount = 0
    /\ spillCount = 0
    /\ appDirPrefix = <<>>
    /\ infoPlistData = NilBytes
    /\ appNameFolder = <<>>
    /\ executableName = <<>>
    /\ bundleID = <<>>
    /\ version = <<>>
    /\ ipaFile = FALSE
    /\ zipEntries = <<>>
    /\ next = 0

(***************************************************************************)
(* Returning from convert.                                                 *)
(***************************************************************************)
\* a plausible slip: the spillover directory is left behind
RemoveAllSkipped(dir, spills) == [dir |-> dir, files |-> spills]

\* defer os.RemoveAll(tempDir) of main.go:141
RemoveAll(dir, spills) == [dir |-> "removed", files |-> {}]

\* a return before main.go:141: no cleanup is deferred yet
ReturnEarly(res) ==
    /\ pc' = "done"
    /\ result' = res
    /\ UNCHANGED <<tempDir, spillFiles>>

\* a return after main.go:141: the deferred RemoveAll runs
Return(res) ==
    /\ pc' = "done"
    /\ result' = res
    /\ tempDir' = RemoveAll(tempDir, spillFiles).dir
    /\ spillFiles' = RemoveAll(tempDir, spillFiles).files

(***************************************************************************)
(* Opening the container and finding the payload member (main.go:76-128).  *)
(***************************************************************************)
OpenDeb ==
    /\ pc = "open"
    /\ \E io \in {"ok", "openErr", "arErr"} :
          IF io = "ok"
          THEN /\ pc' = "ar"
               /\ UNCHANGED <<result, tempDir, spillFiles, failed>>
          ELSE /\ ReturnEarly(IF io = "openErr" THEN "OpenError"
                              ELSE "ContainerFormatError")
               /\ failed' = failed \cup
                      (IF io = "arErr" THEN {"ContainerFormatError"} ELSE {})
    /\ UNCHANGED <<arVars, tarSeen, engineVars, infoVars, zipVars>>

\* arReader.Next returns io.EOF: the loop ends and main.go:126 decides
ArEOF ==
    /\ pc = "ar"
    /\ IF ~foundData
       THEN /\ ReturnEarly("MissingPayloadMember")
            /\ failed' = failed \cup {"MissingPayloadMember"}
       ELSE /\ pc' = "mkdir"
            /\ UNCHANGED <<result, tempDir, spillFiles, failed>>
    /\ UNCHANGED <<arVars, tarSeen, engineVars, infoVars, zipVars>>

\* arReader.Next returns another error
ArError ==
    /\ pc = "ar"
    /\ ReturnEarly("ContainerFormatError")
    /\ failed' = failed \cup {"ContainerFormatError"}
    /\ UNCHANGED <<arVars, tarSeen, engineVars, infoVars, zipVars>>

\* arReader.Next returns a member called name; io is the decoder's start
ArMember(names) ==
    /\ pc = "ar"
    /\ Len(arSeen) < MaxMembers
    /\ \E name \in names, io \in {"ok", "fail"} :
          /\ arSeen' = Append(arSeen, name)
          /\ IF HasPrefix(name, DataTar)
             THEN /\ foundData' = TRUE
                  /\ LET kind == Dispatch(name)
                     IN  IF kind = "unsupported"
                         THEN /\ ReturnEarly("UnsupportedCompressionKind")
                              /\ failed' = failed \cup {"UnsupportedCompressionKind"}
                              /\ UNCHANGED dataTar
                         ELSE IF io = "fail" /\ kind # "bzip2"
                         THEN /\ ReturnEarly("DecompressionInitError")
                              /\ failed' = failed \cup {"DecompressionInitError"}
                              /\ UNCHANGED dataTar
                         ELSE /\ dataTar' = kind
                              /\ pc' = "mkdir"
                              /\ UNCHANGED <<result, tempDir, spillFiles, failed>>
             ELSE UNCHANGED <<pc, result, tempDir, spillFiles, failed,
                              foundData, dataTar>>
    /\ UNCHANGED <<tarSeen, engineVars, infoVars, zipVars>>

\* os.MkdirTemp and the defer of main.go:137-141
MkdirTemp ==
    /\ pc = "mkdir"
    /\ \E io \in {"ok", "fail"} :
          IF io = "ok"
          THEN /\ tempDir' = "exists"
               /\ pc' = "tar"
               /\ UNCHANGED <<result, spillFiles>>
          ELSE ReturnEarly("MkdirTempError")
    /\ UNCHANGED <<failed, arVars, tarSeen, engineVars, infoVars, zipVars>>

(***************************************************************************)
(* The extraction loop (main.go:156-234).                                  *)
(***************************************************************************)
\* tarReader.Next returns io.EOF; main.go:232 then decides
TarEOF ==
    /\ pc = "tar"
    /\ IF appDirPrefix = <<>>
       THEN /\ Return("AppRootNotFound")
            /\ failed' = failed \cup {"AppRootNotFound"}
       ELSE /\ pc' = "meta"
            /\ UNCHANGED <<result, tempDir, spillFiles, failed>>
    /\ UNCHANGED <<arVars, tarSeen, engineVars, infoVars, zipVars>>

\* tarReader.Next returns another error
TarError ==
    /\ pc = "tar"
    /\ Return("TarReadError")
    /\ failed' = failed \cup {"TarReadError"}
    /\ UNCHANGED <<arVars, tarSeen, engineVars, infoVars, zipVars>>

\* tarReader.Next returns a header drawn from headers
TarEntry(headers) ==
    /\ pc = "tar"
    /\ fileCount < MaxEntries
    /\ \E h \in headers, io \in {"ok", "fail1", "fail2"} :
          LET e == ClassifyEntry(Engine, h, io)
          IN  /\ tarSeen' = Append(tarSeen, h)
              /\ SetEngine(e)
              /\ failed' = failed \cup
                     (IF e.err # "" THEN {e.err} ELSE {}) \cup
                     (IF e.fault # "" THEN {e.fault} ELSE {})
              /\ IF e.err # ""
                 THEN Return(e.err)
                 ELSE /\ spillFiles' = e.spillFiles
                      /\ UNCHANGED <<pc, result, tempDir>>
    /\ UNCHANGED <<arVars, infoVars, zipVars>>

(***************************************************************************)
(* Metadata parsing and output creation (main.go:236-288).                 *)
(***************************************************************************)
\* main.go:266-267
CleanAppPrefix(prefix) == ToSlash(prefix)
AppNameFolder(prefix) == Base(CleanAppPrefix(prefix))

\* xml.Unmarshal(infoPlistData, &plist)
Unmarshal(data) == data.doc

ParseMetadata ==
    /\ pc = "meta"
    /\ LET folder == AppNameFolder(appDirPrefix)
           info   == ParseInfo(infoPlistData.len > 0, Unmarshal(infoPlistData),
                               folder)
       IN  /\ appNameFolder' = folder
           /\ executableName' = info.executableName
           /\ bundleID' = info.bundleID
           /\ version' = info.version
    /\ pc' = "create"
    /\ UNCHANGED <<result, failed, arVars, tempDir, spillFiles, tarSeen,
                   engineVars, zipVars>>

\* os.Create(ipaPath) and zip.NewWriter (main.go:276-288)
CreateIpa ==
    /\ pc = "create"
    /\ \E io \in {"ok", "fail"} :
          IF io = "ok"
          THEN /\ ipaFile' = TRUE
               /\ next' = 1
               /\ pc' = "zip"
               /\ UNCHANGED <<result, failed, tempDir, spillFiles>>
          ELSE /\ Return("OutputWriteError")
               /\ failed' = failed \cup {"OutputWriteError"}
               /\ UNCHANGED <<ipaFile, next>>
    /\ UNCHANGED <<arVars, tarSeen, engineVars, infoVars, zipEntries>>

(***************************************************************************)
(* The packager's loop (main.go:290-386).                                  *)
(***************************************************************************)
\* the filter of main.go:291-296
InAppTree(vf, prefix) == HasPrefix(ToSlash(vf.Name), CleanAppPrefix(prefix))

\* zipWriter.CreateHeader: a name ending in a slash is stored
ZipCreateHeader(header) ==
    IF HasSuffix(header.Name, <<"/">>) THEN [header EXCEPT !.Method = Store]
    ELSE header

\* what main.go:373-383 writes as the entry's body
ZipBody(vf) ==
    IF vf.IsLink THEN "link"
    ELSE IF vf.IsDir THEN "none"
    ELSE IF vf.DiskPath # <<>> THEN "disk"
    ELSE "ram"

\* the entry main.go:298-383 writes for vf: src is vf's place in the tar
\* stream (not a field of the program)
ZipEntryOf(vf, prefix, folder, exec) ==
    LET finalPath == FinalPath(vf, CleanAppPrefix(prefix), folder)
        header    == ZipCreateHeader(ZipHeader(vf, finalPath, exec))
    IN  [Name |-> header.Name, Method |-> header.Method,
         Modified |-> header.Modified, ExternalAttrs |-> header.ExternalAttrs,
         body |-> ZipBody(vf), src |-> vf.seq]

\* an iteration that skips a file outside the app root
ZipSkip ==
    /\ pc = "zip"
    /\ next <= Len(files)
    /\ ~InAppTree(files[next], appDirPrefix)
    /\ next' = next + 1
    /\ UNCHANGED <<pc, result, failed, arVars, tempDir, spillFiles, tarSeen,
                   engineVars, infoVars, ipaFile, zipEntries>>

\* an iteration that writes an entry. io: "fail1", CreateHeader fails;
\* "fail2", reading the spill file or writing the body fails
ZipEntry ==
    /\ pc = "zip"
    /\ next <= Len(files)
    /\ InAppTree(files[next], appDirPrefix)
    /\ \E io \in {"ok", "fail1", "fail2"} :
          LET vf == files[next]
          IN  IF io = "fail1"
              THEN /\ Return("OutputWriteError")
                   /\ failed' = failed \cup {"OutputWriteError"}
                   /\ UNCHANGED <<zipEntries, next>>
              ELSE /\ zipEntries' = Append(zipEntries,
                          ZipEntryOf(vf, appDirPrefix, appNameFolder,
                                     executableName))
                   /\ next' = next + 1
                   /\ failed' = failed \cup
                          (IF io = "fail2" /\ ZipBody(vf) # "none"
                           THEN {"OutputWriteError"} ELSE {})
                   /\ UNCHANGED <<pc, result, tempDir, spillFiles>>
    /\ UNCHANGED <<arVars, tarSeen, engineVars, infoVars, ipaFile>>

\* the loop is over: return nil, and the deferred zipWriter.Close,
\* ipaFile.Close and RemoveAll run; io is what Close meets
ZipFinish ==
    /\ pc = "zip"
    /\ next > Len(files)
    /\ \E io \in {"ok", "fail"} :
          /\ Return("ok")
          /\ failed' = failed \cup
                 (IF io = "fail" THEN {"OutputWriteError"} ELSE {})
    /\ UNCHANGED <<arVars, tarSeen, engineVars, infoVars, zipVars>>

(***************************************************************************)
(* Specifications.                                                         *)
(***************************************************************************)
\* the whole of convert, over every member name and entries of varying size
Next ==
    \/ OpenDeb
    \/ ArEOF
    \/ ArError
    \/ ArMember(ArNames)
    \/ MkdirTemp
    \/ TarEOF
    \/ TarError
    \/ TarEntry(HeadersFlow)
    \/ ParseMetadata
    \/ CreateIpa
    \/ ZipSkip
    \/ ZipEntry
    \/ ZipFinish

Spec == Init /\ [][Next]_vars

\* the whole of convert, over a gzip payload and entries of every kind
NextTree ==
    \/ OpenDeb
    \/ ArEOF
    \/ ArError
    \/ ArMember({DataTarGz})
    \/ MkdirTemp
    \/ TarEOF
    \/ TarError
    \/ TarEntry(HeadersTree)
    \/ ParseMetadata
    \/ CreateIpa
    \/ ZipSkip
    \/ ZipEntry
    \/ ZipFinish

SpecTree == Init /\ [][NextTree]_vars

\* The state convert is in at stage (pc) at after a gzip payload holding the
\* one entry h has been extracted without an I/O failure.
AfterOneEntry(at, h) ==
    LET e      == ClassifyEntry(EmptyEngine, h, "ok")
        folder == AppNameFolder(e.appDirPrefix)
        info   == ParseInfo(e.infoPlistData.len > 0, Unmarshal(e.infoPlistData),
                            folder)
        parsed == at = "zip"
    IN  /\ pc = at
        /\ result = ""
        /\ failed = {}
        /\ arSeen = <<DataTarGz>>
        /\ foundData = TRUE
        /\ dataTar = "gzip"
        /\ tempDir = "exists"
        /\ spillFiles = e.spillFiles
        /\ tarSeen = <<h>>
        /\ files = e.files
        /\ currentRamUsage = e.currentRamUsage
        /\ totalSize = e.totalSize
        /\ fileCount = e.fileCount
        /\ spillCount = e.spillCount
        /\ appDirPrefix = e.appDirPrefix
        /\ infoPlistData = e.infoPlistData
        /\ appNameFolder = IF parsed THEN folder ELSE <<>>
        /\ executableName = IF parsed THEN info.executableName ELSE <<>>
        /\ bundleID = IF parsed THEN info.bundleID ELSE <<>>
        /\ version = IF parsed THEN info.version ELSE <<>>
        /\ ipaFile = parsed
        /\ zipEntries = <<>>
        /\ next = IF parsed THEN 1 ELSE 0

\* the packager on one stored file of every kind, mode and sort of path
PermPaths ==
    { AppF \o <<"F">>, AppF \o <<"x">>, AppF \o <<"l">> \o DotDylib,
      AppF \o <<"b", "i", "n", "/", "t">>, AppF \o <<"b", "i", "n", "/", "F">>,
      AppF \o <<"S", "/">> }

HeadersPerm ==
    { Header(p, t, m, 1, Binary, <<"F">>) :
          p \in PermPaths, t \in {TypeReg, TypeDir, TypeSymlink}, m \in 0..MaxMode }

InitPerm == \E h \in HeadersPerm : AfterOneEntry("zip", h)

NextPerm ==
    \/ ZipEntry
    \/ ZipFinish

SpecPerm == InitPerm /\ [][NextPerm]_vars

\* the metadata parser on every short key list and string list
SeqsUpTo(S, n) == UNION { [1..k -> S] : k \in 0..n }

HeadersMeta ==
    { Header(app \o InfoPlist, TypeReg, 420, 1, d, <<>>) :
          app \in {AppF, AppB},
          d \in {BadXml} \cup
                { Plist(k, s) : k \in SeqsUpTo(PlistKeys, MaxKeys),
                                s \in SeqsUpTo(PlistStrings, MaxStrings) } }
    \cup { Header(app \o InfoPlist, TypeReg, 420, 0, Binary, <<>>) :
               app \in {AppF, AppB} }

InitMeta == \E h \in HeadersMeta : AfterOneEntry("meta", h)

NextMeta == ParseMetadata

SpecMeta == InitMeta /\ [][NextMeta]_vars

(***************************************************************************)
(* The claims.                                                             *)
(***************************************************************************)
Last(seq) == seq[Len(seq)]
Indices(seq) == [i \in 1..Len(seq) |-> i]
Recognized(h) == h.Typeflag \in {TypeDir, TypeReg, TypeSymlink}

\* the tar stream has been read to its end
ExtractionOver ==
    \/ pc \in {"meta", "create", "zip"}
    \/ pc = "done" /\ result \in {"ok", "AppRootNotFound", "OutputWriteError"}

C2_ExactlyOne ==
    \A i \in 1..Len(files) :
        (~files[i].IsDir /\ ~files[i].IsLink) =>
            (files[i].Data.nil <=> files[i].DiskPath # <<>>)

\* one iteration of the extraction loop, as C2 describes it
C2_Step ==
    (pc = "tar" /\ Len(tarSeen') = Len(tarSeen) + 1) =>
        LET h      == Last(tarSeen')
            fits   == currentRamUsage + h.Size < MaxMemoryUsage
            stored == Len(files') = Len(files) + 1
            f      == Last(files')
        IN  IF h.Typeflag # TypeReg
            THEN currentRamUsage' = currentRamUsage /\ spillFiles' = spillFiles
            ELSE IF ~stored
            THEN result' \in {"TarReadError", "SpilloverIOError"}
            ELSE IF fits
            THEN /\ ~f.Data.nil
                 /\ f.Data.len = h.Size
                 /\ f.DiskPath = <<>>
                 /\ currentRamUsage' = currentRamUsage + f.Data.len
                 /\ spillFiles' = spillFiles
            ELSE /\ f.Data.nil
                 /\ f.DiskPath \notin spillFiles
                 /\ \A j \in 1..Len(files) : files[j].DiskPath # f.DiskPath
                 /\ spillFiles' = spillFiles \cup {f.DiskPath}
                 /\ currentRamUsage' = currentRamUsage

\* C2: a Regular entry goes to RAM exactly when currentRamUsage + size is
\* below the ceiling at its turn and otherwise to a new file of the spillover
\* directory; only RAM-placed buffers add to currentRamUsage; and every
\* Regular entry of the store has exactly one of buffer and spill path.
C2_Placement == []C2_ExactlyOne /\ [][C2_Step]_vars

\* C2's case: an entry in RAM, then a spilled one, then a later smaller one
\* in RAM again
C2_Witness ==
    /\ Len(files) = 3
    /\ ~files[1].Data.nil /\ files[1].Data.len > 0
    /\ files[2].DiskPath # <<>>
    /\ ~files[3].Data.nil /\ files[3].Data.len > 0
    /\ files[3].Data.len < tarSeen[files[2].seq].Size

\* C3, as claimed: after a spillover, output-write or tar-read failure,
\* convert never returns success.
C3_FailuresAreTerminal ==
    (failed \cap {"SpilloverIOError", "OutputWriteError", "TarReadError"} # {})
        => result # "ok"

\* C4: the spillover directory exists before anything is spilled and while
\* the store is in use, and once convert has returned after creating it, the
\* directory and every spill file are gone.
C4_SpillDirScoped ==
    /\ (spillCount > 0 \/ spillFiles # {}) => tempDir # "none"
    /\ spillFiles # {} => tempDir = "exists"
    /\ pc \in {"tar", "meta", "create", "zip"} => tempDir = "exists"
    /\ (pc = "done" /\ tempDir # "none") =>
            (tempDir = "removed" /\ spillFiles = {})

\* C4's case: a run that spilled an entry and then failed has cleaned up
C4_Witness ==
    /\ pc = "done"
    /\ result \notin {"", "ok"}
    /\ spillCount > 0
    /\ tempDir = "removed"
    /\ spillFiles = {}

\* the tar entries the output must hold, in tar order
C5_Expected ==
    SelectSeq(Indices(tarSeen),
              LAMBDA i : /\ Recognized(tarSeen[i])
                         /\ HasPrefix(tarSeen[i].Name, appDirPrefix))

\* C5: the emitted entries are, in order, the tar entries of kind Directory,
\* Regular or Symlink under the app-root prefix: while packaging a prefix of
\* that sequence, after a successful run all of it.
C5_OrderPreserved ==
    LET got == [i \in 1..Len(zipEntries) |-> zipEntries[i].src]
    IN  /\ pc \in {"zip", "done"} =>
              /\ Len(got) <= Len(C5_Expected)
              /\ got = SubSeq(C5_Expected, 1, Len(got))
        /\ (pc = "done" /\ result = "ok") => got = C5_Expected

\* C5's case: a successful run over three entries that emits the first and
\* the third and leaves out the second
C5_Witness ==
    /\ pc = "done" /\ result = "ok"
    /\ Len(tarSeen) = 3
    /\ [i \in 1..Len(zipEntries) |-> zipEntries[i].src] = <<1, 3>>

\* the prefix C6 predicts from the paths read so far
C6_Expected ==
    LET hits == { i \in 1..Len(tarSeen) :
                      \E k \in 1..(Len(tarSeen[i].Name) - 4) :
                          SubSeq(tarSeen[i].Name, k, k + 4) = DotAppSlash }
    IN  IF hits = {} THEN <<>>
        ELSE LET i    == CHOOSE i \in hits : \A j \in hits : i <= j
                 name == tarSeen[i].Name
                 at   == { k \in 1..(Len(name) - 4) :
                               SubSeq(name, k, k + 4) = DotAppSlash }
                 k    == CHOOSE k \in at : \A m \in at : k <= m
             IN  SubSeq(name, 1, k + 4)

\* C6: the app-root prefix is the first path holding .app/, cut after its
\* first .app/, whatever the entry's type; later paths do not change it; and
\* when the stream ends with no such path the run fails with AppRootNotFound.
C6_FirstAppRoot ==
    /\ appDirPrefix = C6_Expected
    /\ ExtractionOver => (result = "AppRootNotFound" <=> C6_Expected = <<>>)

\* C6's case: an entry of an unrecognized type fixes the prefix, and a later
\* path holding another .app/ leaves it alone
C6_Witness ==
    /\ pc = "meta"
    /\ Len(tarSeen) >= 2
    /\ tarSeen[1].Typeflag = TypeChar
    /\ tarSeen[2].Name = AppB \o InfoPlist
    /\ files # <<>>
    /\ appDirPrefix = AppF

\* C7, as claimed: every entry of the output archive lies inside the
\* Payload/<appFolderName>/ tree.
C7_InsidePayloadTree ==
    \A i \in 1..Len(zipEntries) :
        HasPrefix(zipEntries[i].Name,
                  Payload \o <<"/">> \o appNameFolder \o <<"/">>)

\* what C8 predicts of a descriptor: the value paired with the last of the
\* keys ks among the paired keys, or dflt
C8_ValueOf(plist, ks, dflt) ==
    LET n   == IF Len(plist.Keys) < Len(plist.String)
               THEN Len(plist.Keys) ELSE Len(plist.String)
        at  == { i \in 1..n : plist.Keys[i] \in ks }
    IN  IF at = {} THEN dflt
        ELSE plist.String[CHOOSE i \in at : \A j \in at : j <= i]

\* C8 (checked under SpecMeta): the parsed fields are a function of the key
\* list, the string list and the app folder: the i-th key pairs with the
\* i-th string, unpaired keys are ignored, bundleID and version default to
\* "Unknown", a malformed or missing descriptor leaves the defaults, and an
\* empty executable name becomes the folder's name without .app.
C8_MetadataParsed ==
    pc = "create" =>
        LET h     == tarSeen[1]
            plist == IF h.Size = 0 \/ h.doc.err THEN Plist(<<>>, <<>>) ELSE h.doc
            exec  == C8_ValueOf(plist, {CFBundleExecutable}, <<>>)
            stem  == IF HasPrefix(h.Name, AppF) THEN <<"F">> ELSE <<"B">>
        IN  /\ executableName = IF exec = <<>> THEN stem ELSE exec
            /\ bundleID = C8_ValueOf(plist, {CFBundleIdentifier}, Unknown)
            /\ version = C8_ValueOf(plist,
                   {CFBundleVersion, CFBundleShortVersionString}, Unknown)

\* C8's case: keys [CFBundleExecutable, CFBundleIdentifier] with strings
\* ["F", "com"] in bundle B.app give F, com and version Unknown
C8_Witness ==
    /\ pc = "create"
    /\ tarSeen[1].Name = AppB \o InfoPlist
    /\ tarSeen[1].doc.Keys = <<CFBundleExecutable, CFBundleIdentifier>>
    /\ tarSeen[1].doc.String = <<<<"F">>, <<"c", "o", "m">>>>
    /\ executableName = <<"F">>
    /\ bundleID = <<"c", "o", "m">>
    /\ version = Unknown

\* C9: a member data.tar* with no supported suffix ends the run with
\* UnsupportedCompressionKind, a container with no data.tar* member with
\* MissingPayloadMember, a tar with no .app/ path with AppRootNotFound, and
\* none of these runs creates or writes the output file.
C9_NoOutputOnEarlyFailure ==
    LET data  == { i \in 1..Len(arSeen) : HasPrefix(arSeen[i], DataTar) }
        first == CHOOSE i \in data : \A j \in data : i <= j
        known == \E sfx \in {DotGz, DotXz, DotLzma, DotBzip2} :
                     HasSuffix(arSeen[first], sfx)
    IN  /\ (data # {} /\ ~known) =>
               (pc = "done" /\ result = "UnsupportedCompressionKind")
        /\ result = "UnsupportedCompressionKind" => (data # {} /\ ~known)
        /\ (data = {} /\ pc \notin {"open", "ar"}) =>
               result \in {"MissingPayloadMember", "OpenError",
                           "ContainerFormatError"}
        /\ result = "MissingPayloadMember" => data = {}
        /\ ExtractionOver =>
               (result = "AppRootNotFound" <=>
                    \A i \in 1..Len(tarSeen) :
                        ~Contains(tarSeen[i].Name, DotAppSlash))
        /\ result \in {"UnsupportedCompressionKind", "MissingPayloadMember",
                       "AppRootNotFound"} =>
               (~ipaFile /\ zipEntries = <<>>)

\* C9's case: the first data.tar* member is data.tar.zst, after another
\* member, and the run has ended without an output file
C9_Witness ==
    /\ pc = "done"
    /\ arSeen = <<DebianBinary, DataTar \o DotZst>>
    /\ result = "UnsupportedCompressionKind"
    /\ ~ipaFile

\* the descriptor C10 predicts from the entries read so far
C10_Expected ==
    LET inRam(i) == \E j \in 1..Len(files) :
                        files[j].seq = i /\ ~files[j].Data.nil
        hits == { i \in 1..Len(tarSeen) :
                      /\ tarSeen[i].Typeflag = TypeReg
                      /\ HasSuffix(tarSeen[i].Name, InfoPlist)
                      /\ tarSeen[i].Size > 0
                      /\ inRam(i) }
    IN  IF hits = {} THEN NilBytes
        ELSE LET i == CHOOSE i \in hits : \A j \in hits : j <= i
             IN  Bytes(tarSeen[i].Size, tarSeen[i].doc)

\* C10: the captured descriptor is the content of the last Regular entry
\* whose path ends with Info.plist and that was placed in RAM non-empty,
\* under the app root or not; a spilled Info.plist captures nothing; and with
\* no descriptor the executable name is the folder's name without .app.
C10_DescriptorCaptured ==
    /\ infoPlistData = C10_Expected
    /\ (pc \in {"create", "zip"} /\ infoPlistData.nil) =>
            executableName \o DotApp = appNameFolder

\* C10's case: the bundle's Info.plist, then another bundle's Info.plist,
\* then a spilled Info.plist of the bundle: the second one is the descriptor
C10_Witness ==
    /\ ExtractionOver
    /\ Len(tarSeen) = 3
    /\ appDirPrefix = AppF
    /\ tarSeen[1].Name = AppF \o InfoPlist /\ tarSeen[1].doc = PlistA
    /\ tarSeen[2].Name = AppB \o InfoPlist
    /\ tarSeen[3].Name = AppF \o InfoPlist
    /\ files[3].DiskPath # <<>>
    /\ infoPlistData.doc = PlistC

====
